---- MODULE Spec2Model ----
(***************************************************************************)
(* Model of mlpstorage/reporting.py: ReportGenerator.                      *)
(*                                                                         *)
(* Python dicts are insertion ordered; a dict is modelled as a sequence of *)
(* entries [k |-> key, v |-> value] with pairwise distinct keys.  Python   *)
(* strings that are sorted or searched (CSV field names, metric names) are *)
(* sequences of code points; strings that are only compared for equality   *)
(* are TLA+ strings.  The absent accelerator (None) is the string "None".  *)
(***************************************************************************)
EXTENDS Integers, Sequences, FiniteSets, TLC

\* Largest number of run records get_runs_files returns.
MaxRuns == 2

(***************************************************************************)
(* Ordered dicts                                                           *)
(***************************************************************************)
DictKeys(d) == {d[n].k : n \in DOMAIN d}

DictHas(d, key) == \E n \in DOMAIN d : d[n].k = key

DictGet(d, key) == d[CHOOSE n \in DOMAIN d : d[n].k = key].v

\* d[key] = value: an existing key keeps its position, a new key is appended.
DictSet(d, key, value) ==
    IF DictHas(d, key)
    THEN [n \in DOMAIN d |-> IF d[n].k = key THEN [k |-> key, v |-> value] ELSE d[n]]
    ELSE Append(d, [k |-> key, v |-> value])

DictValues(d) == [n \in DOMAIN d |-> d[n].v]

(***************************************************************************)
(* Values of metrics and of serialised fields, tagged by their Python type *)
(***************************************************************************)
Num(thousandths) == [t |-> "num", v |-> thousandths]
NaN == [t |-> "nan", v |-> 0]
List(elems) == [t |-> "list", v |-> elems]
Str(s) == [t |-> "str", v |-> s]
Dict(d) == [t |-> "dict", v |-> d]

\* Code points of the strings used as dict keys.
K_run_id == <<114, 117, 110, 95, 105, 100>>
K_model == <<109, 111, 100, 101, 108>>
K_accelerator == <<97, 99, 99, 101, 108, 101, 114, 97, 116, 111, 114>>
K_metrics == <<109, 101, 116, 114, 105, 99, 115>>
K_AU_Percentage == <<65, 85, 95, 80, 101, 114, 99, 101, 110, 116, 97, 103, 101>>
K_lat == <<108, 97, 116>>
K_iops == <<105, 111, 112, 115>>
K_note == <<110, 111, 116, 101>>
K_percentage == <<112, 101, 114, 99, 101, 110, 116, 97, 103, 101>>
K_sep == <<46>>

(***************************************************************************)
(* config: the model sets and the compliance categories                    *)
(***************************************************************************)
LLM_MODELS == {"llama3-8b"}
MODELS == {"unet3d"}

CLOSED == "closed"
OPEN == "open"
INVALID == "invalid"
\* A category value outside the three the report iterates over.
NO_CATEGORY == "none"

PARAM_VALIDATION == {CLOSED, OPEN, INVALID}

FILE_NOT_FOUND == "FILE_NOT_FOUND"
SUCCESS == "SUCCESS"

(***************************************************************************)
(* Run records the source can hand over                                    *)
(***************************************************************************)
BenchmarkRun(run_id, benchmark_type, command, model, accelerator, metrics) ==
    [run_id |-> run_id, benchmark_type |-> benchmark_type, command |-> command,
     model |-> model, accelerator |-> accelerator, metrics |-> metrics]

RunRecords ==
    { BenchmarkRun("r1", "training", "run", "unet3d", "a100",
                   << [k |-> K_AU_Percentage, v |-> Num(42567)],
                      [k |-> K_lat, v |-> List(<<1000, 2250>>)] >>),
      BenchmarkRun("r2", "training", "", "unet3d", "a100",
                   << [k |-> K_iops, v |-> NaN],
                      [k |-> K_AU_Percentage, v |-> Num(1234949)] >>),
      BenchmarkRun("r1", "training", "datagen", "unet3d", "h100", << >>),
      BenchmarkRun("r3", "checkpointing", "run", "llama3-8b", "None",
                   << [k |-> K_lat, v |-> NaN] >>),
      BenchmarkRun("r4", "vector_database", "run", "dlrm", "None",
                   << [k |-> K_note, v |-> Str("n/a")] >>) }

RECURSIVE SeqsUpTo(_, _)
SeqsUpTo(S, n) ==
    IF n = 0 THEN {<< >>}
    ELSE LET shorter == SeqsUpTo(S, n - 1)
         IN  shorter \cup {Append(s, x) : s \in {q \in shorter : Len(q) = n - 1}, x \in S}

(***************************************************************************)
(* The Verifier collaborator: verify() returns a category and fills        *)
(* issues, or raises.  The single-run verification may also return a value *)
(* that is none of the three categories of the report.                     *)
(***************************************************************************)
VerifierOutcomes ==
    { [raises |-> FALSE, category |-> CLOSED, issues |-> << >>],
      [raises |-> FALSE, category |-> OPEN, issues |-> <<"open parameter">>],
      [raises |-> FALSE, category |-> INVALID, issues |-> <<"missing checksum">>],
      [raises |-> FALSE, category |-> NO_CATEGORY, issues |-> << >>],
      [raises |-> TRUE, category |-> NO_CATEGORY, issues |-> << >>] }

\* Outcomes of the verification of a whole workload group: one of the three
\* categories, or an exception.
WorkloadOutcomes == {o \in VerifierOutcomes : o.raises \/ o.category \in PARAM_VALIDATION}

VARIABLES
    results_dir_exists,  \* os.path.exists(results_dir)
    source,              \* the run records on disk, in get_runs_files order (one per
                         \* run directory, no two equal in every field)
    pc,                  \* position of the program
    exit_code,           \* status the process or generate_reports ended with
    benchmark_runs,      \* local of accumulate_results: the discovered runs
    discovered,          \* get_runs_files has been called
    i,                   \* index of the loop in progress
    run_results,         \* self.run_results
    workload_runs,       \* local of accumulate_results: the groups
    workload_results,    \* self.workload_results
    verifier_calls,      \* history of BenchmarkVerifier invocations
    stdout,              \* lines printed so far
    results_csv,         \* content of results.csv
    results_json         \* content of results.json

vars == <<results_dir_exists, source, pc, exit_code, benchmark_runs, discovered, i,
          run_results, workload_runs, workload_results, verifier_calls, stdout,
          results_csv, results_json>>

UnwrittenCsv == [written |-> FALSE, header |-> << >>, rows |-> << >>]
UnwrittenJson == [written |-> FALSE, data |-> << >>]

Init ==
    /\ results_dir_exists \in BOOLEAN
    /\ source \in {q \in SeqsUpTo(RunRecords, MaxRuns) :
                        \A a, b \in DOMAIN q : a # b => q[a] # q[b]}
    /\ pc = "init"
    /\ exit_code = "none"
    /\ benchmark_runs = << >>
    /\ discovered = FALSE
    /\ i = 1
    /\ run_results = << >>
    /\ workload_runs = << >>
    /\ workload_results = << >>
    /\ verifier_calls = << >>
    /\ stdout = << >>
    /\ results_csv = UnwrittenCsv
    /\ results_json = UnwrittenJson

(***************************************************************************)
(* __init__ up to the call of accumulate_results, and the first statement  *)
(* of accumulate_results (get_runs_files).                                 *)
(***************************************************************************)
\* DirectoryMissing without the os.path.exists check.
DirectoryMissingIgnored == FALSE

DirectoryMissing == ~results_dir_exists

Construct ==
    /\ pc = "init"
    /\ IF DirectoryMissing
       THEN /\ pc' = "exited"
            /\ exit_code' = FILE_NOT_FOUND
            /\ UNCHANGED <<benchmark_runs, discovered>>
       ELSE /\ pc' = "verify_runs"
            /\ benchmark_runs' = source
            /\ discovered' = TRUE
            /\ UNCHANGED exit_code
    /\ UNCHANGED <<results_dir_exists, source, i, run_results, workload_runs,
                   workload_results, verifier_calls, stdout, results_csv, results_json>>

(***************************************************************************)
(* accumulate_results, first loop: one iteration                           *)
(***************************************************************************)
Call(site, runs, outcome) == [site |-> site, runs |-> runs, outcome |-> outcome]

RunKey(benchmark_run) == benchmark_run.run_id

\* RunResult with the metrics left empty.
RunResultNoMetrics(benchmark_run, category, issues) ==
    [multi |-> FALSE,
     benchmark_run |-> benchmark_run,
     benchmark_type |-> benchmark_run.benchmark_type,
     benchmark_command |-> benchmark_run.command,
     benchmark_model |-> benchmark_run.model,
     issues |-> issues,
     category |-> category,
     metrics |-> << >>]

RunResult(benchmark_run, category, issues) ==
    [multi |-> FALSE,
     benchmark_run |-> benchmark_run,
     benchmark_type |-> benchmark_run.benchmark_type,
     benchmark_command |-> benchmark_run.command,
     benchmark_model |-> benchmark_run.model,
     issues |-> issues,
     category |-> category,
     metrics |-> benchmark_run.metrics]

VerifyRun ==
    /\ pc = "verify_runs"
    /\ i <= Len(benchmark_runs)
    /\ \E outcome \in VerifierOutcomes :
         LET benchmark_run == benchmark_runs[i] IN
         /\ verifier_calls' = Append(verifier_calls, Call("single", <<benchmark_run>>, outcome))
         /\ IF outcome.raises
            THEN /\ pc' = "raised"
                 /\ exit_code' = "exception"
                 /\ UNCHANGED <<run_results, i>>
            ELSE /\ run_results' = DictSet(run_results, RunKey(benchmark_run),
                                           RunResult(benchmark_run, outcome.category, outcome.issues))
                 /\ i' = i + 1
                 /\ UNCHANGED <<pc, exit_code>>
    /\ UNCHANGED <<results_dir_exists, source, benchmark_runs, discovered, workload_runs,
                   workload_results, stdout, results_csv, results_json>>

(***************************************************************************)
(* accumulate_results, second loop: group the runs                         *)
(***************************************************************************)
\* WorkloadKey that groups by model alone.
WorkloadKeyModelOnly(benchmark_run) == <<benchmark_run.model, "None">>

WorkloadKey(benchmark_run) == <<benchmark_run.model, benchmark_run.accelerator>>

GroupInto(groups, benchmark_run) ==
    LET workload_key == WorkloadKey(benchmark_run)
        started == IF DictHas(groups, workload_key) THEN groups
                   ELSE DictSet(groups, workload_key, << >>)
    IN  DictSet(started, workload_key, Append(DictGet(started, workload_key), benchmark_run))

RECURSIVE GroupAll(_, _)
GroupAll(runs, n) ==
    IF n = 0 THEN << >> ELSE GroupInto(GroupAll(runs, n - 1), runs[n])

GroupRuns ==
    /\ pc = "verify_runs"
    /\ i > Len(benchmark_runs)
    /\ workload_runs' = GroupAll(benchmark_runs, Len(benchmark_runs))
    /\ pc' = "verify_workloads"
    /\ i' = 1
    /\ UNCHANGED <<results_dir_exists, source, exit_code, benchmark_runs, discovered,
                   run_results, workload_results, verifier_calls, stdout,
                   results_csv, results_json>>

(***************************************************************************)
(* accumulate_results, third loop: one iteration                           *)
(***************************************************************************)
\* WorkloadResult whose category is INVALID as soon as a member run is.
WorkloadResultFromMembers(runs, category, issues) ==
    [multi |-> TRUE,
     benchmark_run |-> runs,
     benchmark_type |-> runs[1].benchmark_type,
     benchmark_command |-> runs[1].command,
     benchmark_model |-> runs[1].model,
     issues |-> issues,
     category |-> IF \E n \in DOMAIN runs :
                        DictGet(run_results, runs[n].run_id).category = INVALID
                  THEN INVALID ELSE category,
     metrics |-> << >>]

WorkloadResult(runs, category, issues) ==
    [multi |-> TRUE,
     benchmark_run |-> runs,
     benchmark_type |-> runs[1].benchmark_type,
     benchmark_command |-> runs[1].command,
     benchmark_model |-> runs[1].model,
     issues |-> issues,
     category |-> category,
     metrics |-> << >>]

VerifyWorkload ==
    /\ pc = "verify_workloads"
    /\ i <= Len(workload_runs)
    /\ LET workload_key == workload_runs[i].k
           runs == workload_runs[i].v
       IN  IF runs = << >>
           THEN /\ i' = i + 1
                /\ UNCHANGED <<pc, exit_code, workload_results, verifier_calls>>
           ELSE \E outcome \in WorkloadOutcomes :
                  /\ verifier_calls' = Append(verifier_calls, Call("multi", runs, outcome))
                  /\ IF outcome.raises
                     THEN /\ pc' = "raised"
                          /\ exit_code' = "exception"
                          /\ UNCHANGED <<workload_results, i>>
                     ELSE /\ workload_results' =
                                DictSet(workload_results, workload_key,
                                        WorkloadResult(runs, outcome.category, outcome.issues))
                          /\ i' = i + 1
                          /\ UNCHANGED <<pc, exit_code>>
    /\ UNCHANGED <<results_dir_exists, source, benchmark_runs, discovered, run_results,
                   workload_runs, stdout, results_csv, results_json>>

(***************************************************************************)
(* print_results                                                           *)
(***************************************************************************)
\* src is the mapping key of the Result a line was printed for.
Line(kind, src, text) == [kind |-> kind, src |-> src, text |-> text]

RECURSIVE ConcatAll(_)
ConcatAll(seqs) ==
    IF seqs = << >> THEN << >> ELSE Head(seqs) \o ConcatAll(Tail(seqs))

\* CategoryOrder with the first two categories exchanged.
CategoryOrderSwapped == <<OPEN, CLOSED, INVALID>>

CategoryOrder == <<CLOSED, OPEN, INVALID>>

Lower(s) == [n \in DOMAIN s |-> IF s[n] \in 65..90 THEN s[n] + 32 ELSE s[n]]

Contains(sub, s) ==
    \E n \in 1..(Len(s) - Len(sub) + 1) : SubSeq(s, n, n + Len(sub) - 1) = sub

IsPercentage(metric) == Contains(K_percentage, Lower(metric))

\* {value:,.1f} of a decimal given in thousandths: tenths, ties to even.
RoundTenths(thousandths) ==
    LET q == thousandths \div 100
        r == thousandths % 100
    IN  IF r > 50 \/ (r = 50 /\ q % 2 = 1) THEN q + 1 ELSE q

FormatNumber(value, suffix) ==
    IF value.t = "nan"
    THEN [fmt |-> "nan", tenths |-> 0, suffix |-> suffix, text |-> ""]
    ELSE [fmt |-> "f1", tenths |-> RoundTenths(value.v), suffix |-> suffix, text |-> ""]

\* The elements printed for one metric: one for a scalar or another value, one
\* per element (joined with ", ") for a list or tuple.
FormatMetric(metric, value) ==
    LET suffix == IF IsPercentage(metric) THEN "%" ELSE "" IN
    IF value.t \in {"num", "nan"}
    THEN <<FormatNumber(value, suffix)>>
    ELSE IF value.t = "list"
    THEN [n \in DOMAIN value.v |-> FormatNumber(Num(value.v[n]), suffix)]
    ELSE <<[fmt |-> "str", tenths |-> 0, suffix |-> "", text |-> value.v]>>

IssueLines(src, issues) ==
    IF issues # << >>
    THEN <<Line("Issues", src, "")>> \o [n \in DOMAIN issues |-> Line("Issue", src, issues[n])]
    ELSE <<Line("NoIssues", src, "")>>

MetricLines(src, metrics) ==
    IF metrics # << >>
    THEN <<Line("Metrics", src, "")>>
         \o [n \in DOMAIN metrics |->
                Line("Metric", src, [metric |-> metrics[n].k,
                                     value |-> FormatMetric(metrics[n].k, metrics[n].v)])]
    ELSE << >>

RunBlock(src, result) ==
    <<Line("RunID", src, result.benchmark_run.run_id),
      Line("BenchmarkType", src, result.benchmark_type),
      Line("Command", src, result.benchmark_command),
      Line("Model", src, result.benchmark_model)>>
    \o IssueLines(src, result.issues)
    \o MetricLines(src, result.metrics)
    \o <<Line("Blank", src, "")>>

\* InSection without the comparison of categories.
InSectionAlways(result, category) == TRUE

InSection(result, category) == result.category = category

RunSection(results, category) ==
    <<Line("Section", "runs", category)>>
    \o ConcatAll([n \in DOMAIN results |->
                    IF InSection(results[n].v, category)
                    THEN RunBlock(results[n].k, results[n].v)
                    ELSE << >>])

RunReport(results) ==
    <<Line("Banner", "runs", "Results Report")>>
    \o ConcatAll([c \in DOMAIN CategoryOrder |-> RunSection(results, CategoryOrder[c])])

\* The local workload_id before its first assignment.
Unbound == [family |-> "unbound", model |-> "", accelerator |-> ""]

WorkloadId(result, previous) ==
    IF result.benchmark_model \in LLM_MODELS
    THEN [family |-> "Checkpointing", model |-> result.benchmark_model, accelerator |-> ""]
    ELSE IF result.benchmark_model \in MODELS
    THEN [family |-> "Training", model |-> result.benchmark_model,
          accelerator |-> result.benchmark_run[1].accelerator]
    ELSE previous

UnknownLines(src, result) ==
    IF result.benchmark_model \in LLM_MODELS \/ result.benchmark_model \in MODELS
    THEN << >>
    ELSE <<Line("UnknownWorkload", src, result.benchmark_model)>>

RunRefs(src, result, results) ==
    [n \in DOMAIN result.benchmark_run |->
        Line("RunRef", src, [member |-> n,
                             run_id |-> result.benchmark_run[n].run_id,
                             category |-> DictGet(results, result.benchmark_run[n].run_id).category])]

WorkloadBlock(src, result, workload_id, results) ==
    <<Line("WorkloadID", src, workload_id),
      Line("BenchmarkType", src, result.benchmark_type)>>
    \o (IF result.benchmark_command # ""
        THEN <<Line("Command", src, result.benchmark_command)>> ELSE << >>)
    \o <<Line("Runs", src, "")>>
    \o RunRefs(src, result, results)
    \o IssueLines(src, result.issues)
    \o <<Line("Blank", src, "")>>

\* One iteration of the inner loop of the submissions report.  st carries the
\* lines printed, the local workload_id and whether an UnboundLocalError was
\* raised by the read of workload_id.
WorkloadStep(st, entry, category, results) ==
    IF st.raised \/ ~InSection(entry.v, category) THEN st
    ELSE LET workload_id == WorkloadId(entry.v, st.workload_id)
             diagnosed == st.out \o UnknownLines(entry.k, entry.v)
         IN  IF workload_id = Unbound
             THEN [out |-> diagnosed, workload_id |-> workload_id, raised |-> TRUE]
             ELSE [out |-> diagnosed \o WorkloadBlock(entry.k, entry.v, workload_id, results),
                   workload_id |-> workload_id, raised |-> FALSE]

RECURSIVE WorkloadSection(_, _, _, _, _)
WorkloadSection(st, workloads, n, category, results) ==
    IF n = 0
    THEN IF st.raised THEN st
         ELSE [st EXCEPT !.out = Append(@, Line("Section", "workloads", category))]
    ELSE WorkloadStep(WorkloadSection(st, workloads, n - 1, category, results),
                      workloads[n], category, results)

RECURSIVE WorkloadReport(_, _, _, _)
WorkloadReport(st, workloads, c, results) ==
    IF c = 0
    THEN [st EXCEPT !.out = Append(@, Line("Banner", "workloads", "Submissions Report"))]
    ELSE WorkloadSection(WorkloadReport(st, workloads, c - 1, results),
                         workloads, Len(workloads), CategoryOrder[c], results)

PrintResults ==
    /\ pc = "verify_workloads"
    /\ i > Len(workload_runs)
    /\ LET printed == WorkloadReport([out |-> RunReport(run_results),
                                      workload_id |-> Unbound, raised |-> FALSE],
                                     workload_results, Len(CategoryOrder), run_results)
       IN  /\ stdout' = printed.out
           /\ IF printed.raised
              THEN pc' = "crashed" /\ exit_code' = "exception"
              ELSE pc' = "constructed" /\ UNCHANGED exit_code
    /\ UNCHANGED <<results_dir_exists, source, benchmark_runs, discovered, i, run_results,
                   workload_runs, workload_results, verifier_calls, results_csv, results_json>>

(***************************************************************************)
(* generate_reports, write_csv_file, write_json_file                       *)
(***************************************************************************)
as_dict(benchmark_run) ==
    << [k |-> K_run_id, v |-> Str(benchmark_run.run_id)],
       [k |-> K_model, v |-> Str(benchmark_run.model)],
       [k |-> K_accelerator, v |-> Str(benchmark_run.accelerator)],
       [k |-> K_metrics, v |-> Dict(benchmark_run.metrics)] >>

RECURSIVE flatten_nested_dict(_, _, _, _)
\* The first n entries of d flattened into acc, under the key path parent_key.
flatten_nested_dict(acc, d, n, parent_key) ==
    IF n = 0 THEN acc
    ELSE LET before == flatten_nested_dict(acc, d, n - 1, parent_key)
             new_key == IF parent_key # << >> THEN parent_key \o K_sep \o d[n].k ELSE d[n].k
         IN  IF d[n].v.t = "dict"
             THEN flatten_nested_dict(before, d[n].v.v, Len(d[n].v.v), new_key)
             ELSE DictSet(before, new_key, d[n].v)

remove_nan_values(d) == SelectSeq(d, LAMBDA e : e.v.t # "nan")

LexLess(a, b) ==
    \E n \in 1..(Len(a) + 1) :
        /\ n <= Len(b)
        /\ \A m \in 1..(n - 1) : a[m] = b[m]
        /\ n = Len(a) + 1 \/ a[n] < b[n]

RECURSIVE sorted(_)
sorted(S) ==
    IF S = {} THEN << >>
    ELSE LET least == CHOOSE x \in S : \A y \in S \ {x} : LexLess(x, y)
         IN  <<least>> \o sorted(S \ {least})

Blank == Str("")

\* Flattened without remove_nan_values.
FlattenedKeepNaN(results) ==
    [n \in DOMAIN results |-> flatten_nested_dict(<< >>, results[n], Len(results[n]), << >>)]

Flattened(results) ==
    [n \in DOMAIN results |->
        remove_nan_values(flatten_nested_dict(<< >>, results[n], Len(results[n]), << >>))]

Fieldnames(flattened_results) ==
    UNION {DictKeys(flattened_results[n]) : n \in DOMAIN flattened_results}

CsvRow(row, header) ==
    [c \in DOMAIN header |-> IF DictHas(row, header[c]) THEN DictGet(row, header[c]) ELSE Blank]

write_csv_file(results) ==
    LET flattened_results == Flattened(results)
        header == sorted(Fieldnames(flattened_results))
    IN  [written |-> TRUE,
         header |-> header,
         rows |-> [n \in DOMAIN flattened_results |-> CsvRow(flattened_results[n], header)]]

write_json_file(results) == [written |-> TRUE, data |-> results]

GenerateReports ==
    /\ pc = "constructed"
    /\ LET reports == DictValues(run_results)
           run_result_dicts == [n \in DOMAIN reports |-> as_dict(reports[n].benchmark_run)]
       IN  /\ results_csv' = write_csv_file(run_result_dicts)
           /\ results_json' = write_json_file(run_result_dicts)
    /\ exit_code' = SUCCESS
    /\ pc' = "reported"
    /\ UNCHANGED <<results_dir_exists, source, benchmark_runs, discovered, i, run_results,
                   workload_runs, workload_results, verifier_calls, stdout>>

Next ==
    \/ Construct
    \/ VerifyRun
    \/ GroupRuns
    \/ VerifyWorkload
    \/ PrintResults
    \/ GenerateReports

(***************************************************************************)
(* Properties                                                              *)
(***************************************************************************)
\* accumulate_results has returned.
AccumulateDone ==
    \/ pc = "verify_workloads" /\ i > Len(workload_runs)
    \/ pc \in {"constructed", "reported", "crashed"}

DistinctRunIds ==
    \A a, b \in DOMAIN source : a # b => source[a].run_id # source[b].run_id

KeyOf(record) == <<record.model, record.accelerator>>

GroupOf(key) == SelectSeq(source, LAMBDA r : KeyOf(r) = key)

\* C1: once accumulate_results has returned over a source whose run ids are
\* pairwise distinct, run_results has one entry per source record, its keys
\* are exactly the source run ids, and the entry of key k holds the source
\* record of run id k, with multi false and that record's metrics.
C1_Completeness ==
    (AccumulateDone /\ DistinctRunIds) =>
        /\ Len(run_results) = Len(source)
        /\ DictKeys(run_results) = {source[m].run_id : m \in DOMAIN source}
        /\ \A n \in DOMAIN run_results :
             \E m \in DOMAIN source :
                /\ source[m].run_id = run_results[n].k
                /\ run_results[n].v.benchmark_run = source[m]
                /\ run_results[n].v.multi = FALSE
                /\ run_results[n].v.metrics = source[m].metrics

C1_Witness ==
    /\ AccumulateDone
    /\ DistinctRunIds
    /\ Len(source) >= 2
    /\ \E n \in DOMAIN run_results : run_results[n].v.metrics # << >>

\* C2: once accumulate_results has returned, workload_results is the
\* group-by of the source on (model, accelerator): its keys are the pairs
\* occurring in the source, each entry holds the source records of its key
\* in source order, and every source record is in exactly one entry.
C2_Grouping ==
    AccumulateDone =>
        /\ DictKeys(workload_results) = {KeyOf(source[m]) : m \in DOMAIN source}
        /\ \A n \in DOMAIN workload_results :
             /\ workload_results[n].v.benchmark_run # << >>
             /\ workload_results[n].v.benchmark_run = GroupOf(workload_results[n].k)
        /\ \A m \in DOMAIN source :
             Cardinality({n \in DOMAIN workload_results :
                            \E j \in DOMAIN workload_results[n].v.benchmark_run :
                               workload_results[n].v.benchmark_run[j] = source[m]}) = 1

C2_Witness ==
    /\ AccumulateDone
    /\ \E n \in DOMAIN workload_results :
         /\ Len(workload_results[n].v.benchmark_run) = 2
         /\ workload_results[n].v.benchmark_run[1] # workload_results[n].v.benchmark_run[2]
         /\ workload_results[n].v.benchmark_run = source

C2_WitnessNone ==
    /\ AccumulateDone
    /\ Len(workload_results) = 2
    /\ \E n \in DOMAIN workload_results : workload_results[n].k[2] = "None"

CategoryRank(category) ==
    IF category = CLOSED THEN 1
    ELSE IF category = OPEN THEN 2
    ELSE IF category = INVALID THEN 3
    ELSE 4

Position(d, key) == CHOOSE n \in DOMAIN d : d[n].k = key

RunStarts == {n \in DOMAIN stdout : stdout[n].kind = "RunID"}

WorkloadStarts == {n \in DOMAIN stdout : stdout[n].kind = "Runs"}

PrintedInOrder(starts, results) ==
    \A a, b \in starts :
        LET ra == DictGet(results, stdout[a].src)
            rb == DictGet(results, stdout[b].src)
        IN  /\ CategoryRank(ra.category) < CategoryRank(rb.category) => a < b
            /\ (/\ ra.category = rb.category
                /\ Position(results, stdout[a].src) < Position(results, stdout[b].src)) => a < b

\* C3: in the printed lines, within the run report and within the workload
\* report, every CLOSED result comes before every OPEN one and every OPEN
\* one before every INVALID one, and results of one category come in the
\* insertion order of their mapping.
C3_CategoryOrdering ==
    /\ PrintedInOrder(RunStarts, run_results)
    /\ PrintedInOrder(WorkloadStarts, workload_results)

C3_Witness ==
    /\ \E a, b \in RunStarts :
         a < b /\ Position(run_results, stdout[a].src) > Position(run_results, stdout[b].src)
    /\ \E a, b \in WorkloadStarts :
         /\ a < b
         /\ Position(workload_results, stdout[a].src) > Position(workload_results, stdout[b].src)

\* C4: with a results directory that does not exist the process ends with
\* FILE_NOT_FOUND, and at no time is a run discovered, a Verifier called, a
\* line printed, a file written or a result stored.
C4_FatalPath ==
    ~results_dir_exists =>
        /\ pc \in {"init", "exited"}
        /\ pc = "exited" => exit_code = FILE_NOT_FOUND
        /\ ~discovered
        /\ benchmark_runs = << >>
        /\ verifier_calls = << >>
        /\ stdout = << >>
        /\ ~results_csv.written
        /\ ~results_json.written
        /\ run_results = << >>
        /\ workload_results = << >>

C4_Witness ==
    /\ ~results_dir_exists
    /\ pc = "exited"
    /\ source # << >>

IsUnknownModel(model) == model \notin LLM_MODELS /\ model \notin MODELS

\* C5: the workload report never crashes on a workload whose model is in
\* neither model set; for such a workload a diagnostic is printed and no
\* workload identifier line, and every other workload is rendered.
C5_UnknownWorkloadSkipped ==
    /\ pc # "crashed"
    /\ pc \in {"constructed", "reported"} =>
         \A n \in DOMAIN workload_results :
            LET e == workload_results[n]
                identified == \E j \in DOMAIN stdout :
                                 stdout[j].kind = "WorkloadID" /\ stdout[j].src = e.k
                diagnosed == \E j \in DOMAIN stdout :
                                 stdout[j].kind = "UnknownWorkload" /\ stdout[j].src = e.k
            IN  e.v.category \in PARAM_VALIDATION =>
                   IF IsUnknownModel(e.v.benchmark_model)
                   THEN diagnosed /\ ~identified
                   ELSE identified

\* The source positions of the records whose single-run verify() raised.
FailedRuns ==
    {n \in DOMAIN verifier_calls :
        verifier_calls[n].site = "single" /\ verifier_calls[n].outcome.raises}

\* C6: when the single-run verify() of one record raises, every other
\* source record still has its run-level Result and its workload group when
\* the program stops.
C6_FailureIsolation ==
    (pc \in {"raised", "crashed", "reported"} /\ FailedRuns # {}) =>
        \A m \in DOMAIN source \ FailedRuns :
            /\ DictHas(run_results, source[m].run_id)
            /\ \E g \in DOMAIN workload_runs :
                 \E j \in DOMAIN workload_runs[g].v : workload_runs[g].v[j] = source[m]

\* C7: the category and issues of every workload Result are those returned
\* by the one Verifier invocation over the whole ordered group, whatever
\* the categories of the member runs, and its metrics are empty.
C7_WorkloadVerdict ==
    \A n \in DOMAIN workload_results :
        LET e == workload_results[n]
            calls == {c \in DOMAIN verifier_calls :
                        /\ verifier_calls[c].site = "multi"
                        /\ verifier_calls[c].runs = GroupOf(e.k)}
        IN  /\ Cardinality(calls) = 1
            /\ \A c \in calls :
                 /\ ~verifier_calls[c].outcome.raises
                 /\ e.v.category = verifier_calls[c].outcome.category
                 /\ e.v.issues = verifier_calls[c].outcome.issues
            /\ e.v.metrics = << >>
            /\ e.v.multi = TRUE

C7_Witness ==
    /\ pc = "reported"
    /\ \E n \in DOMAIN workload_results :
         /\ workload_results[n].v.category = CLOSED
         /\ Len(workload_results[n].v.benchmark_run) = 2
         /\ \E j \in DOMAIN workload_results[n].v.benchmark_run :
              DictGet(run_results, workload_results[n].v.benchmark_run[j].run_id).category
                 = INVALID

\* The flattened keys of the n-th run-level Result's record, NaN ones dropped.
CsvKeysOf(n) ==
    LET d == as_dict(run_results[n].v.benchmark_run)
    IN  DictKeys(remove_nan_values(flatten_nested_dict(<< >>, d, Len(d), << >>)))

CsvValueOf(n, key) ==
    LET d == as_dict(run_results[n].v.benchmark_run)
    IN  DictGet(flatten_nested_dict(<< >>, d, Len(d), << >>), key)

\* C8: results.csv has as header the strictly increasing (lexicographic)
\* sequence of the union of the records' flattened keys after the NaN-valued
\* ones are dropped, then one row per run-level Result in run_results order,
\* blank in the columns whose key the record lacks.
C8_CsvShape ==
    pc = "reported" =>
        LET header == results_csv.header
            rows == results_csv.rows
        IN  /\ results_csv.written
            /\ {header[c] : c \in DOMAIN header}
                  = UNION {CsvKeysOf(n) : n \in DOMAIN run_results}
            /\ \A a, b \in DOMAIN header : a < b => LexLess(header[a], header[b])
            /\ Len(rows) = Len(run_results)
            /\ \A n \in DOMAIN rows :
                 /\ Len(rows[n]) = Len(header)
                 /\ \A c \in DOMAIN header :
                      IF header[c] \in CsvKeysOf(n)
                      THEN /\ rows[n][c].t = CsvValueOf(n, header[c]).t
                           /\ rows[n][c].v = CsvValueOf(n, header[c]).v
                      ELSE rows[n][c].t = "str" /\ rows[n][c].v = ""

C8_Witness ==
    /\ pc = "reported"
    /\ Len(results_csv.rows) = 2
    /\ \E c \in DOMAIN results_csv.header :
         /\ results_csv.header[c] \notin CsvKeysOf(2)
         /\ results_csv.header[c] \in CsvKeysOf(1)
         /\ LET d == as_dict(run_results[2].v.benchmark_run)
            IN  DictHas(flatten_nested_dict(<< >>, d, Len(d), << >>), results_csv.header[c])

\* The source position of the m-th record of the group of key.
SourceIndex(key, m) ==
    LET members == {n \in DOMAIN source : KeyOf(source[n]) = key}
    IN  CHOOSE n \in members : Cardinality({j \in members : j <= n}) = m

\* C9: every member run listed in the workload report carries the category
\* the single-run Verifier assigned to that very record.
C9_MemberOwnCategory ==
    \A j \in DOMAIN stdout :
        stdout[j].kind = "RunRef" =>
            stdout[j].text.category
               = verifier_calls[SourceIndex(stdout[j].src, stdout[j].text.member)].outcome.category

SectionOf(j) ==
    LET headers == {s \in 1..j : stdout[s].kind = "Section"}
    IN  stdout[CHOOSE s \in headers : \A o \in headers : o <= s].text

\* C10: the run report prints an entry of run_results exactly once, in the
\* section of its category, when that category is CLOSED, OPEN or INVALID,
\* and prints an entry of any other category nowhere.
C10_RunPrintedOnce ==
    stdout # << >> =>
        /\ \A n \in DOMAIN run_results :
             LET e == run_results[n]
                 blocks == {j \in RunStarts : stdout[j].src = e.k}
             IN  IF e.v.category \in {CLOSED, OPEN, INVALID}
                 THEN /\ Cardinality(blocks) = 1
                      /\ \A j \in blocks : SectionOf(j) = e.v.category
                 ELSE blocks = {}
        /\ Cardinality(RunStarts)
              = Cardinality({n \in DOMAIN run_results :
                               run_results[n].v.category \in {CLOSED, OPEN, INVALID}})

C10_Witness ==
    /\ stdout # << >>
    /\ \E n \in DOMAIN run_results : run_results[n].v.category = NO_CATEGORY
    /\ \E n \in DOMAIN run_results : run_results[n].v.category = INVALID

Spec == Init /\ [][Next]_vars
====
